---- MODULE Spec2Model ----
(***************************************************************************)
(* Model of the AstroLogic AI backend (godsake999/astrologer-ai):          *)
(*   backend/mahabote.py        Burmese Mahabote house calculation         *)
(*   backend/astrology_core.py  planets, ascendant, aspects, Vedic data    *)
(*   backend/ai_engine.py       generate_reading, the provider failover    *)
(*   backend/main.py            create_synthesis, the request handler      *)
(*                                                                         *)
(* Numbers.  The program computes with Python floats.  The model         *)
(* computes the same expressions exactly, on fixed-point integers:         *)
(*   - a longitude handed to format_planet, get_nakshatra_info or          *)
(*     get_mahadasha is an integer count of 1/LonRes degree, and 360/27    *)
(*     and 360/108 are exact rationals;                                    *)
(*   - a value rounded by round(x, 1) is an integer count of tenths.       *)
(* The rounding error of IEEE doubles (about 1e-16 relative) is not        *)
(* modelled.  It shows only where an exact value lies on a boundary: the   *)
(* double 360/27 is 13.333333333333334, above 40/3, so that for a double   *)
(* longitude that is exactly on a pada boundary of a later nakshatra       *)
(* (40.0, say) moon_lon % (360/27) falls just short of the exact           *)
(* remainder, and an exact tie of round(x, 1) goes where the nearest       *)
(* double lies.  One rounding is modelled, since it takes a result out of *)
(* its range: normalize(asc) in approximate_ascendant (see RoundsTo360).   *)
(***************************************************************************)
EXTENDS Integers, Sequences, FiniteSets, TLC

VARIABLES
    birth_date,     \* mahabote.py: the argument of calculate_mahabote
    mahabote,       \* mahabote.py: the dict calculate_mahabote returned
    today,          \* the system clock's calendar date, read by date.today()
    moon_lon,       \* the longitude handed to format_planet,
                    \* get_nakshatra_info and get_mahadasha
    formatted,      \* what format_planet returned
    nak_info,       \* what get_nakshatra_info returned
    dash_info,      \* what get_mahadasha returned
    positions,      \* the position map handed to get_aspects, in dict order
    aspects,        \* what get_aspects returned
    dominant,       \* western["dominant_aspects"] built from aspects
    birth_dt,       \* the birth instant handed to calculate_western_vedic
    place,          \* the coordinates <<lat, lon>> handed to it
    result,         \* what the latest call of calculate_western_vedic returned
    prev_result,    \* what the call before it returned, on the same arguments
    calls,          \* how many times calculate_western_vedic was called
    planet_arg,     \* the body identifier handed to planet_longitude
    planet_ret,     \* how that call of planet_longitude ended
    asc_ret,        \* what approximate_ascendant returned for birth_dt and place
    epoch_dt,       \* the instant handed to to_julian_day
    epoch_d,        \* jd_to_j2000(to_julian_day(epoch_dt)), once computed
    later_dt,       \* a second instant, compared with epoch_dt
    later_d,        \* jd_to_j2000(to_julian_day(later_dt)), once computed
    request,        \* main.py: the birth data create_synthesis was posted
    pc,             \* where create_synthesis and generate_reading stand
    synthesis,      \* main.py: the synthesis object, once built
    keys,           \* ai_engine.py: which API keys _load_keys finds
    max_retries,    \* the argument max_retries of generate_reading
    attempt,        \* the loop variable of the provider loop in progress
    provider_calls, \* the calls made to the providers so far, in order
    gen_ret,        \* how generate_reading ended
    response        \* what create_synthesis answered

mahaboteVars == <<birth_date, mahabote>>
vedicVars == <<today, moon_lon, formatted, nak_info, dash_info>>
aspectVars == <<positions, aspects, dominant>>
engineVars == <<birth_dt, place, result, prev_result, calls, planet_arg, planet_ret, asc_ret>>
epochVars == <<epoch_dt, epoch_d, later_dt, later_d>>
readingVars == <<request, pc, synthesis, keys, max_retries, attempt, provider_calls, gen_ret,
                 response>>

vars == <<birth_date, mahabote, today, moon_lon, formatted, nak_info, dash_info,
          positions, aspects, dominant,
          birth_dt, place, result, prev_result, calls, planet_arg, planet_ret, asc_ret,
          epoch_dt, epoch_d, later_dt, later_d,
          request, pc, synthesis, keys, max_retries, attempt, provider_calls, gen_ret,
          response>>

\* The value of a variable that holds nothing yet (Python: not yet bound).
\* Every value a variable can hold is a record, so that it compares with None.
None == [none |-> TRUE]

(***************************************************************************)
(* Bounds of the model                                                     *)
(***************************************************************************)
\* Birth dates range over the calendar years FirstYear .. FirstYear+NumYears-1.
FirstYear == 1988
NumYears == 9
\* A longitude is an integer count of 1/LonRes degree.
LonRes == 30
\* The system clock shows ClockStart or one of the MaxClockDays days after it.
MaxClockDays == 1
\* In a map of all seven bodies, each body is at its base longitude moved by
\* 0 .. MaxShift signs (30 degrees each).
MaxShift == 2
\* calculate_western_vedic is called at most MaxCalls times on its arguments.
MaxCalls == 2
\* generate_reading is called with max_retries in 0 .. MaxRetries.
MaxRetries == 3

(***************************************************************************)
(* datetime.date (the standard library, as used by the program)            *)
(***************************************************************************)
IsLeap(y) == (y % 4 = 0) /\ ((y % 100 # 0) \/ (y % 400 = 0))

DaysInMonth(y, m) ==
    IF m = 2 THEN (IF IsLeap(y) THEN 29 ELSE 28)
    ELSE IF m \in {4, 6, 9, 11} THEN 30 ELSE 31

\* Days of the year y that precede the first day of month m.
DaysBeforeMonth(y, m) ==
    LET cum == <<0, 31, 59, 90, 120, 151, 181, 212, 243, 273, 304, 334>>
    IN cum[m] + (IF m > 2 /\ IsLeap(y) THEN 1 ELSE 0)

\* Days that precede the first day of year y (day 1 is 0001-01-01).
DaysBeforeYear(y) ==
    LET y1 == y - 1
    IN y1 * 365 + y1 \div 4 - y1 \div 100 + y1 \div 400

\* date.toordinal(): 0001-01-01 is day 1.
ToOrdinal(dt) == DaysBeforeYear(dt.year) + DaysBeforeMonth(dt.year, dt.month) + dt.day

\* date.fromordinal(n), n >= 1.
FromOrdinal(n) ==
    LET y == CHOOSE yy \in (n \div 366) .. (n \div 365 + 1) :
                 DaysBeforeYear(yy) < n /\ n <= DaysBeforeYear(yy + 1)
        doy == n - DaysBeforeYear(y)
        m == CHOOSE mm \in 1 .. 12 :
                 /\ DaysBeforeMonth(y, mm) < doy
                 /\ doy <= DaysBeforeMonth(y, mm) + DaysInMonth(y, mm)
    IN [year |-> y, month |-> m, day |-> doy - DaysBeforeMonth(y, m)]

\* date + timedelta(days = n) for a whole number of days.
AddDays(dt, n) == FromOrdinal(ToOrdinal(dt) + n)

\* The dates the system clock can show.
ClockStart == [year |-> 2026, month |-> 10, day |-> 31]
ClockDates == { AddDays(ClockStart, k) : k \in 0 .. MaxClockDays }

\* date.weekday(): Monday = 0 ... Sunday = 6.
weekday(dt) == (ToOrdinal(dt) + 6) % 7

\* The Julian Day Number of a Gregorian calendar date, by the integer
\* arithmetic of to_julian_day (astrology_core.py lines 92-95).
JulianDayNumber(dt) ==
    LET a == (14 - dt.month) \div 12
        y == dt.year + 4800 - a
        m == dt.month + 12 * a - 3
    IN dt.day + (153 * m + 2) \div 5 + 365 * y + y \div 4 - y \div 100 + y \div 400 - 32045

\* Every valid calendar date of the years in range.
Dates ==
    { [year |-> y, month |-> m, day |-> d] :
        y \in FirstYear .. (FirstYear + NumYears - 1), m \in 1 .. 12, d \in 1 .. 31 }

ValidDates == { dt \in Dates : dt.day <= DaysInMonth(dt.year, dt.month) }

(***************************************************************************)
(* mahabote.py                                                             *)
(***************************************************************************)
THINGYAN_MONTH == 4
THINGYAN_DAY == 14

MAHABOTE_HOUSES ==
    [i \in 0 .. 6 |->
        CASE i = 0 -> [name |-> "Binga",  planet |-> "Saturn",  natural_day |-> "Saturday"]
          [] i = 1 -> [name |-> "Yaza",   planet |-> "Sun",     natural_day |-> "Sunday"]
          [] i = 2 -> [name |-> "Athit",  planet |-> "Moon",    natural_day |-> "Monday"]
          [] i = 3 -> [name |-> "Mahat",  planet |-> "Mars",    natural_day |-> "Tuesday"]
          [] i = 4 -> [name |-> "Atwan",  planet |-> "Mercury", natural_day |-> "Wednesday"]
          [] i = 5 -> [name |-> "Thinga", planet |-> "Jupiter", natural_day |-> "Thursday"]
          [] i = 6 -> [name |-> "Yat",    planet |-> "Venus",   natural_day |-> "Friday"]]

\* Keyed by Python's weekday (Mon=0 .. Sun=6): Sat -> 0, Sun -> 1, Mon -> 2, ...
PYTHON_WEEKDAY_TO_MAHABOTE_VALUE ==
    [w \in 0 .. 6 |->
        CASE w = 5 -> 0 [] w = 6 -> 1 [] w = 0 -> 2 [] w = 1 -> 3
          [] w = 2 -> 4 [] w = 3 -> 5 [] w = 4 -> 6]

DAY_NAMES ==
    [w \in 0 .. 6 |->
        CASE w = 0 -> "Monday" [] w = 1 -> "Tuesday" [] w = 2 -> "Wednesday"
          [] w = 3 -> "Thursday" [] w = 4 -> "Friday" [] w = 5 -> "Saturday"
          [] w = 6 -> "Sunday"]

\* A mutant of calculate_burmese_era: the cut-off compares with <= instead of <.
calculate_burmese_era_le(bd) ==
    IF bd.month < THINGYAN_MONTH
       \/ (bd.month = THINGYAN_MONTH /\ bd.day <= THINGYAN_DAY)
    THEN bd.year - 639
    ELSE bd.year - 638

calculate_burmese_era(bd) ==
    IF bd.month < THINGYAN_MONTH
       \/ (bd.month = THINGYAN_MONTH /\ bd.day < THINGYAN_DAY)
    THEN bd.year - 639
    ELSE bd.year - 638

calculate_kyin(be_year) == be_year % 7

\* A mutant of house_index_of: the remainder keeps the sign of the dividend,
\* as C's and Java's % do.
house_index_trunc(day_value, kyin) ==
    IF day_value >= kyin THEN (day_value - kyin) % 7 ELSE 0 - ((kyin - day_value) % 7)

\* mahabote.py line 117: Python's % is non-negative for a positive modulus.
house_index_of(day_value, kyin) == (day_value - kyin) % 7

\* The dict calculate_mahabote returns (the Burmese-script texts, which are
\* static lookups by day name and house name, are left out).  A house index
\* outside 0..6 is a KeyError in MAHABOTE_HOUSES[house_index].
calculate_mahabote(bd) ==
    LET be_year        == calculate_burmese_era(bd)
        kyin           == calculate_kyin(be_year)
        python_weekday == weekday(bd)
        day_name       == DAY_NAMES[python_weekday]
        day_value      == PYTHON_WEEKDAY_TO_MAHABOTE_VALUE[python_weekday]
        house_index    == house_index_of(day_value, kyin)
    IN IF house_index \notin DOMAIN MAHABOTE_HOUSES
       THEN [raised |-> "KeyError", house_index |-> house_index,
             kyin |-> kyin, day_value |-> day_value]
       ELSE [birth_day     |-> day_name,
             house_name    |-> MAHABOTE_HOUSES[house_index].name,
             ruling_planet |-> MAHABOTE_HOUSES[house_index].planet,
             be_year       |-> be_year,
             kyin          |-> kyin,
             day_value     |-> day_value,
             house_index   |-> house_index,
             grid_number   |-> house_index + 1]

(***************************************************************************)
(* astrology_core.py: tables                                               *)
(***************************************************************************)
ZODIAC_SIGNS ==
    <<"Aries", "Taurus", "Gemini", "Cancer", "Leo", "Virgo",
      "Libra", "Scorpio", "Sagittarius", "Capricorn", "Aquarius", "Pisces">>

NAKSHATRAS ==
    <<"Ashwini", "Bharani", "Krittika", "Rohini", "Mrigashira", "Ardra",
      "Punarvasu", "Pushya", "Ashlesha", "Magha", "Purva Phalguni", "Uttara Phalguni",
      "Hasta", "Chitra", "Swati", "Vishakha", "Anuradha", "Jyeshtha",
      "Mula", "Purva Ashadha", "Uttara Ashadha", "Shravana", "Dhanishtha",
      "Shatabhisha", "Purva Bhadrapada", "Uttara Bhadrapada", "Revati">>

NAKSHATRA_LORDS ==
    <<"Ketu", "Venus", "Sun", "Moon", "Mars", "Rahu", "Jupiter", "Saturn",
      "Mercury", "Ketu", "Venus", "Sun", "Moon", "Mars", "Rahu", "Jupiter",
      "Saturn", "Mercury", "Ketu", "Venus", "Sun", "Moon", "Mars", "Rahu",
      "Jupiter", "Saturn", "Mercury">>

VIMSHOTTARI_ORDER ==
    << <<"Ketu", 7>>, <<"Venus", 20>>, <<"Sun", 6>>, <<"Moon", 10>>, <<"Mars", 7>>,
       <<"Rahu", 18>>, <<"Jupiter", 16>>, <<"Saturn", 19>>, <<"Mercury", 17>> >>

(***************************************************************************)
(* Fixed-point arithmetic                                                  *)
(***************************************************************************)
\* The longitudes of [0, 360) the model represents.
Longitudes == 0 .. (360 * LonRes - 1)

Min(a, b) == IF a <= b THEN a ELSE b

\* The least element of a non-empty set of integers.
First(S) == CHOOSE i \in S : \A j \in S : i <= j

\* round(num / den) to the nearest integer, a tie going to the even one
\* (Python's round), for num >= 0 and den > 0.
RoundHalfEven(num, den) ==
    LET q == num \div den
        r == num % den
    IN IF 2 * r < den THEN q
       ELSE IF 2 * r > den THEN q + 1
       ELSE IF q % 2 = 0 THEN q ELSE q + 1

\* round(lon % 30, 1) of format_planet, in tenths of a degree.
degree_of(lon) == RoundHalfEven((lon % (30 * LonRes)) * 10, LonRes)

\* int(lon / 30) % 12 of format_planet.
sign_idx_of(lon) == (lon \div (30 * LonRes)) % 12

\* f"{ZODIAC_SIGNS[sign_idx]} {degree}°": the sign's name and the degree
\* printed with one decimal (degree is the count of tenths).
format_planet(lon) ==
    [sign |-> ZODIAC_SIGNS[sign_idx_of(lon) + 1], degree |-> degree_of(lon)]

(***************************************************************************)
(* astrology_core.py: Julian Day and core astronomy.                       *)
(*                                                                         *)
(* A Julian Day is a record [day, sec]: the integer Julian Day Number and  *)
(* the offset from its noon in seconds (jdn + (hour - 12)/24 + minute/1440 *)
(* + second/86400 of the code).  An angle is an integer count of           *)
(* micro-degrees.  math.sin, math.cos, math.tan and math.atan2 are the     *)
(* library's; the model computes them from a table of sines of whole       *)
(* degrees (to 1e-4) and a polynomial arctangent (to 0.1 degree).          *)
(***************************************************************************)
MicroDeg == 1000 * 1000
Circle == 360 * MicroDeg

\* A mutant of to_julian_day: the day fraction is counted from midnight.
to_julian_day_midnight(dt) ==
    [day |-> JulianDayNumber(dt),
     sec |-> dt.hour * 3600 + dt.minute * 60 + dt.second]

to_julian_day(dt) ==
    [day |-> JulianDayNumber(dt),
     sec |-> (dt.hour - 12) * 3600 + dt.minute * 60 + dt.second]

\* jd - 2451545.0: days since J2000.0, as whole days (rounded down) and the
\* seconds 0 .. 86399 after them.
jd_to_j2000(jd) ==
    IF jd.sec >= 0
    THEN [days |-> jd.day - 2451545, secs |-> jd.sec]
    ELSE [days |-> jd.day - 2451545 - 1, secs |-> jd.sec + 86400]

\* angle % 360
normalize(angle) == angle % Circle

\* (rate * n) % 360 degrees for n >= 0, by doubling, so that no product
\* leaves the range of the checker's integers.
RECURSIVE ScaleMod(_, _)
ScaleMod(rate, n) ==
    IF n = 0 THEN 0
    ELSE (2 * ScaleMod(rate, n \div 2) + (n % 2) * rate) % Circle

\* normalize(a + b * d) for an angle a, a rate b of hi + lo/100 micro-degrees
\* per day and d days since J2000.0.
Mean(a, hi, lo, d) ==
    LET r == hi % Circle
        whole == IF d.days >= 0 THEN ScaleMod(r, d.days)
                 ELSE (Circle - ScaleMod(r, 0 - d.days)) % Circle
        fine == (lo * d.days) \div 100
        sq == hi \div 86400
        sr == hi % 86400
        part == sq * d.secs + (sr * (d.secs \div 60)) \div 1440
                            + (sr * (d.secs % 60)) \div 86400
    IN normalize(a + whole + fine + part)

\* 10000 * sin of the whole degrees 0 .. 90.
SinTable ==
    << 0, 175, 349, 523, 698, 872, 1045, 1219, 1392, 1564, 1736, 1908, 2079,
       2250, 2419, 2588, 2756, 2924, 3090, 3256, 3420, 3584, 3746, 3907, 4067, 4226,
       4384, 4540, 4695, 4848, 5000, 5150, 5299, 5446, 5592, 5736, 5878, 6018, 6157,
       6293, 6428, 6561, 6691, 6820, 6947, 7071, 7193, 7314, 7431, 7547, 7660, 7771,
       7880, 7986, 8090, 8192, 8290, 8387, 8480, 8572, 8660, 8746, 8829, 8910, 8988,
       9063, 9135, 9205, 9272, 9336, 9397, 9455, 9511, 9563, 9613, 9659, 9703, 9744,
       9781, 9816, 9848, 9877, 9903, 9925, 9945, 9962, 9976, 9986, 9994, 9998, 10000 >>

\* 10000 * sin of m milli-degrees, 0 <= m <= 90000, interpolated.
SinQuadrant(m) ==
    LET deg == m \div 1000
        f   == m % 1000
    IN IF deg >= 90 THEN SinTable[91]
       ELSE SinTable[deg + 1] + ((SinTable[deg + 2] - SinTable[deg + 1]) * f) \div 1000

\* 10000 * math.sin(rad(x)) for an angle x in micro-degrees.
Sin(x) ==
    LET m == normalize(x) \div 1000
    IN IF m <= 90000 THEN SinQuadrant(m)
       ELSE IF m <= 180000 THEN SinQuadrant(180000 - m)
       ELSE IF m <= 270000 THEN 0 - SinQuadrant(m - 180000)
       ELSE 0 - SinQuadrant(360000 - m)

\* 10000 * math.cos(rad(x))
Cos(x) == Sin(x + 90 * MicroDeg)

\* amp * math.sin(rad(x)) in micro-degrees, for an amplitude amp in units of
\* 1e-4 degree.
Term(amp, x) == (amp * Sin(x)) \div 100

\* atan(z / 10000) in milli-degrees for 0 <= z <= 10000:
\* (pi/4) z - z (z - 1) (0.2447 + 0.0663 z), in degrees.
AtanUnit(z) ==
    (9 * z) \div 2 + ((14020 + (3799 * z) \div 10000) * ((z * (10000 - z)) \div 10000)) \div 10000

\* math.degrees(math.atan2(y, x)) in micro-degrees, in (-180, 180] degrees.
Atan2(y, x) ==
    LET ax == IF x < 0 THEN 0 - x ELSE x
        ay == IF y < 0 THEN 0 - y ELSE y
        base == IF ax = 0 /\ ay = 0 THEN 0
                ELSE IF ax >= ay THEN AtanUnit((ay * 10000) \div ax)
                ELSE 90000 - AtanUnit((ax * 10000) \div ay)
        half == IF x >= 0 THEN base ELSE 180000 - base
    IN IF y < 0 THEN 0 - half * 1000 ELSE half * 1000

\* planet_longitude(dt, planet): [value |-> the longitude in micro-degrees].
\* The mean elements are per Julian century in the code (T = d / 36525); the
\* rate of each is given here per day, with the code's figure beside it.
planet_longitude(dt, planet) ==
    LET d == jd_to_j2000(to_julian_day(dt))
    IN CASE planet = "Sun" ->
              LET L0 == Mean(280466460, 985647, 36, d)        \* 280.46646 + 36000.76983 T
                  M  == Mean(357529110, 985600, 28, d)        \* 357.52911 + 35999.05029 T
                  \* (1.914602 - 0.004817 T) sin M + 0.019993 sin 2M
                  C  == Term(19146 - (48 * d.days) \div 36525, M) + Term(200, 2 * M)
              IN [value |-> normalize(L0 + C)]
         [] planet = "Moon" ->
              LET Lm     == Mean(218316000, 13176396, 0, d)   \* 218.316 + 13.176396 d
                  M_moon == Mean(134963000, 13064993, 0, d)   \* 134.963 + 13.064993 d
                  D      == Mean(297850000, 12190749, 0, d)   \* 297.850 + 12.190749 d
                  Mp     == Mean(357529000, 985608, 0, d)     \* 357.529 + 0.985608 d
              IN [value |-> normalize(Lm + Term(62890, M_moon)
                                         - Term(12740, 2 * D - M_moon)
                                         + Term(6580, 2 * D)
                                         - Term(1860, Mp)
                                         - Term(590, 2 * D - 2 * M_moon)
                                         - Term(570, 2 * D + M_moon - Mp))]
         [] planet = "Mercury" ->
              LET L == Mean(252250906, 4092338, 80, d)        \* 252.250906 + 149472.6746358 T
                  M == Mean(168672000, 4092334, 43, d)        \* 168.672 + 149472.515 T
              IN [value |-> normalize(L + Term(12000, M))]
         [] planet = "Venus" ->
              LET L == Mean(181979801, 1602130, 48, d)        \* 181.979801 + 58517.8156760 T
                  M == Mean(48005200, 1602130, 13, d)         \* 48.0052 + 58517.8030 T
              IN [value |-> normalize(L + Term(7700, M))]
         [] planet = "Mars" ->
              LET L == Mean(355433000, 524032, 84, d)         \* 355.433 + 19140.2993 T
                  M == Mean(19387000, 524032, 92, d)          \* 19.387 + 19140.3025 T
              IN [value |-> normalize(L + Term(106910, M) + Term(6230, 2 * M))]
         [] planet = "Jupiter" ->
              LET L == Mean(34351519, 83091, 19, d)           \* 34.351519 + 3034.9056606 T
                  M == Mean(20900000, 83091, 20, d)           \* 20.9 + 3034.906 T
              IN [value |-> normalize(L + Term(55500, M) + Term(1680, 2 * M))]
         [] planet = "Saturn" ->
              LET L == Mean(50077444, 33459, 65, d)           \* 50.077444 + 1222.1138488 T
                  M == Mean(317000000, 33459, 66, d)          \* 317.0 + 1222.114 T
              IN [value |-> normalize(L + Term(63940, M) + Term(3440, 2 * M))]
         [] OTHER -> [value |-> 0]                            \* return 0.0

\* GMST = 280.46061837 + 360.98564736629 * d; LST = normalize(GMST + lon),
\* lon in micro-degrees.
local_sidereal_time(dt, lon) ==
    LET d    == jd_to_j2000(to_julian_day(dt))
        GMST == Mean(280460618, 360985647, 37, d)
    IN normalize(GMST + lon)

\* Whether normalize(asc) is the double 360.0.  When x > 0 and y, the double
\* math.cos(rad(LST)), is negative and tiny, math.atan2(y, x) is a negative
\* angle asc of the size of y / x, and asc % 360 is 360 + asc rounded to a
\* double: 360.0 when asc is no more than 2^-45 degree (2.84e-14, half the
\* spacing of the doubles below 360) from 0.  It happens
\*   - at LST = 270.0, where the double cosine is -1.837e-16 instead of 0
\*     (pi is not a double) and asc = -1.0525e-14 / x degree: for x >= 0.3703;
\*   - at latitude -90, where math.tan is about -1.6e16 and x about 6.5e15:
\*     whenever the cosine is negative (90 < LST <= 270).
RoundsTo360(LST, lat, x) ==
    /\ x > 0
    /\ \/ LST = 270 * MicroDeg /\ x >= 3703
       \/ lat = 0 - 90 * MicroDeg /\ LST > 90 * MicroDeg /\ LST <= 270 * MicroDeg

\* approximate_ascendant(dt, lat, lon) in micro-degrees, lat and lon in
\* micro-degrees.  At the poles math.tan is huge (about 1.6e16), not an error.
approximate_ascendant(dt, lat, lon) ==
    LET d     == jd_to_j2000(to_julian_day(dt))
        LST   == local_sidereal_time(dt, lon)
        eps   == 23439000 - (4 * d.days) \div 10               \* 23.439 - 0.0000004 d
        tan_sin_eps ==
            IF Cos(lat) = 0
            THEN (IF lat > 0 THEN 1 ELSE 0 - 1) * 10000 * 10000
            ELSE (((Sin(lat) * 10000) \div Cos(lat)) * Sin(eps)) \div 10000
        x     == 0 - ((Sin(LST) * Cos(eps)) \div 10000 + tan_sin_eps)
        asc   == Atan2(Cos(LST), x)
    IN IF RoundsTo360(LST, lat, x) THEN Circle ELSE normalize(asc)

(***************************************************************************)
(* astrology_core.py: aspects                                              *)
(***************************************************************************)
\* (angle, orb, name), angle and orb in degrees.
ASPECT_TYPES ==
    << <<0, 8, "Conjunction">>, <<60, 6, "Sextile">>, <<90, 8, "Square">>,
       <<120, 8, "Trine">>, <<180, 8, "Opposition">> >>

planet_names == <<"Sun", "Moon", "Mercury", "Venus", "Mars", "Jupiter", "Saturn">>

Abs(x) == IF x < 0 THEN 0 - x ELSE x

\* A mutant of angular_separation: the separation is never folded to [0, 180].
angular_separation_unfolded(lon1, lon2) == Abs(lon1 - lon2)

\* A mutant of angular_separation: abs() is forgotten.
angular_separation_signed(lon1, lon2) ==
    LET diff == lon1 - lon2
    IN IF diff > 180 * LonRes THEN 360 * LonRes - diff ELSE diff

\* diff = abs(lon1 - lon2); if diff > 180: diff = 360 - diff
angular_separation(lon1, lon2) ==
    LET diff == Abs(lon1 - lon2)
    IN IF diff > 180 * LonRes THEN 360 * LonRes - diff ELSE diff

\* The entries of ASPECT_TYPES with abs(diff - angle) <= orb.
matching_aspects(diff) ==
    { k \in 1 .. Len(ASPECT_TYPES) :
        Abs(diff - ASPECT_TYPES[k][1] * LonRes) <= ASPECT_TYPES[k][2] * LonRes }

\* The inner loop of get_aspects: the records one pair of bodies appends,
\* at most one because of the break.
pair_aspects(e1, e2) ==
    LET m == matching_aspects(angular_separation(e1.lon, e2.lon))
    IN IF m = {} THEN <<>>
       ELSE << [p1 |-> e1.planet, name |-> ASPECT_TYPES[First(m)][3], p2 |-> e2.planet] >>

\* The loops of get_aspects from pair (i, j) on: i over the entries in order,
\* j over the entries after i.
RECURSIVE aspects_from(_, _, _)
aspects_from(pos, i, j) ==
    IF i > Len(pos) THEN <<>>
    ELSE IF j > Len(pos) THEN aspects_from(pos, i + 1, i + 2)
    ELSE pair_aspects(pos[i], pos[j]) \o aspects_from(pos, i, j + 1)

get_aspects(pos) == aspects_from(pos, 1, 2)

NoAspects == [indicator |-> "No major aspects detected"]

\* A mutant of dominant_aspects: the list is not capped.
dominant_aspects_uncapped(asp) == IF asp # <<>> THEN asp ELSE <<NoAspects>>

\* A mutant of dominant_aspects: an empty list is passed on as it is.
dominant_aspects_no_default(asp) == SubSeq(asp, 1, Min(6, Len(asp)))

\* aspects[:6] if aspects else ["No major aspects detected"]
dominant_aspects(asp) ==
    IF asp # <<>> THEN SubSeq(asp, 1, Min(6, Len(asp))) ELSE <<NoAspects>>

(***************************************************************************)
(* astrology_core.py: Vedic calculations.  360/27 degree is 40 * LonRes    *)
(* thirds of a longitude unit and 360/108 degree is 10 * LonRes of them,   *)
(* so a longitude is multiplied by 3 and the arithmetic is exact.          *)
(***************************************************************************)
nakshatra_span == 40 * LonRes
pada_span == 10 * LonRes

\* A mutant of nakshatra_idx: the circle is cut into 28 parts.
nakshatra_idx_28(lon) == Min((28 * lon) \div (360 * LonRes), 26)

\* min(int(moon_lon / (360 / 27)), 26)
nakshatra_idx(lon) == Min((3 * lon) \div nakshatra_span, 26)

\* A mutant of pada_of: the "+ 1" is forgotten.
pada_of_zero_based(lon) == ((3 * lon) % nakshatra_span) \div pada_span

\* int((moon_lon % (360 / 27)) / (360 / 108)) + 1
pada_of(lon) == ((3 * lon) % nakshatra_span) \div pada_span + 1

get_nakshatra_info(lon) ==
    LET idx == nakshatra_idx(lon)
    IN [nakshatra |-> NAKSHATRAS[idx + 1],
        pada      |-> pada_of(lon),
        lord      |-> NAKSHATRA_LORDS[idx + 1]]

\* The indices of VIMSHOTTARI_ORDER whose body is lord; next(...) takes the
\* first and raises StopIteration when there is none.
OrderIndices(lord) == { i \in 1 .. Len(VIMSHOTTARI_ORDER) : VIMSHOTTARI_ORDER[i][1] = lord }

\* VIMSHOTTARI_ORDER[(current_idx + 1) % len(VIMSHOTTARI_ORDER)][0], with
\* current_idx counted from 1 here.
next_lord_of(current_idx) ==
    VIMSHOTTARI_ORDER[(current_idx % Len(VIMSHOTTARI_ORDER)) + 1][1]

\* get_mahadasha(birth_date, moon_lon), with the date date.today() returns
\* as clock.  years_remaining = dasha_years * rem / nakshatra_span, where
\* rem is what is left of the nakshatra's span; the function reports
\* round(years_remaining, 1) (here in tenths of a year) and the date
\* clock + timedelta(days = years_remaining * 365.25), which date addition
\* truncates to whole days.
get_mahadasha(bd, lon, clock) ==
    LET idx  == nakshatra_idx(lon)
        lord == NAKSHATRA_LORDS[idx + 1]
        rem  == nakshatra_span - (3 * lon - idx * nakshatra_span)
    IN IF OrderIndices(lord) = {}
       THEN [raised |-> "StopIteration"]
       ELSE LET current_idx == First(OrderIndices(lord))
                dasha_years == VIMSHOTTARI_ORDER[current_idx][2]
            IN [mahadasha_lord  |-> lord,
                years_remaining |-> RoundHalfEven(10 * dasha_years * rem, nakshatra_span),
                ends            |-> AddDays(clock, (dasha_years * rem * 1461)
                                                       \div (4 * nakshatra_span)),
                next_dasha      |-> next_lord_of(current_idx)]

(***************************************************************************)
(* astrology_core.py: the main calculator.  The functions of a longitude   *)
(* above take it as a count of 1/LonRes degree; ToLon brings a longitude   *)
(* in micro-degrees down to that grid.                                     *)
(***************************************************************************)
ToLon(x) == ((x \div 1000) * LonRes) \div 1000

\* calculate_western_vedic(birth_dt, lat, lon), with the date date.today()
\* returns when get_mahadasha runs as clock.
calculate_western_vedic(dt, lat, lon, clock) ==
    LET pos == [i \in 1 .. Len(planet_names) |->
                   [planet |-> planet_names[i],
                    lon |-> ToLon(planet_longitude(dt, planet_names[i]).value)]]
        ascendant_lon == ToLon(approximate_ascendant(dt, lat, lon))
        asp  == get_aspects(pos)
        moon == pos[2].lon
        nak  == get_nakshatra_info(moon)
        dash == get_mahadasha([year |-> dt.year, month |-> dt.month, day |-> dt.day],
                              moon, clock)
    IN IF "raised" \in DOMAIN dash THEN dash
       ELSE [western |-> [sun       |-> format_planet(pos[1].lon),
                          moon      |-> format_planet(pos[2].lon),
                          mercury   |-> format_planet(pos[3].lon),
                          venus     |-> format_planet(pos[4].lon),
                          mars      |-> format_planet(pos[5].lon),
                          jupiter   |-> format_planet(pos[6].lon),
                          saturn    |-> format_planet(pos[7].lon),
                          ascendant |-> format_planet(ascendant_lon),
                          dominant_aspects |-> dominant_aspects(asp)],
             vedic   |-> [nakshatra      |-> nak.nakshatra,
                          nakshatra_pada |-> nak.pada,
                          nakshatra_lord |-> nak.lord,
                          mahadasha      |-> <<dash.mahadasha_lord, "Dasha">>,
                          mahadasha_ends |-> dash.ends,
                          next_dasha     |-> dash.next_dasha]]

(***************************************************************************)
(* Specification of the Mahabote deriver: a birth date is given, then      *)
(* calculate_mahabote is called on it.                                     *)
(***************************************************************************)
VedicIdle ==
    /\ today = ClockStart
    /\ moon_lon = 0
    /\ formatted = None
    /\ nak_info = None
    /\ dash_info = None

AspectIdle ==
    /\ positions = <<>>
    /\ aspects = None
    /\ dominant = None

\* The epoch J2000.0, 2000-01-01 12:00:00.
J2000 == [year |-> 2000, month |-> 1, day |-> 1, hour |-> 12, minute |-> 0, second |-> 0]

EngineIdle ==
    /\ birth_dt = J2000
    /\ place = <<0, 0>>
    /\ result = None
    /\ prev_result = None
    /\ calls = 0
    /\ planet_arg = ""
    /\ planet_ret = None
    /\ asc_ret = None

EpochIdle ==
    /\ epoch_dt = J2000
    /\ epoch_d = None
    /\ later_dt = J2000
    /\ later_d = None

ReadingIdle ==
    /\ request = None
    /\ pc = "idle"
    /\ synthesis = None
    /\ keys = None
    /\ max_retries = 0
    /\ attempt = 0
    /\ provider_calls = <<>>
    /\ gen_ret = None
    /\ response = None

InitMahabote ==
    /\ birth_date \in ValidDates
    /\ mahabote = None
    /\ VedicIdle
    /\ AspectIdle
    /\ ReadingIdle
    /\ EngineIdle
    /\ EpochIdle

CalculateMahabote ==
    /\ mahabote = None
    /\ mahabote' = calculate_mahabote(birth_date)
    /\ UNCHANGED <<birth_date, vedicVars, aspectVars, engineVars, epochVars, readingVars>>

NextMahabote == CalculateMahabote

SpecMahabote == InitMahabote /\ [][NextMahabote]_vars

(***************************************************************************)
(* Specification of the functions of one longitude: a longitude and a      *)
(* clock date are given, then format_planet, get_nakshatra_info or         *)
(* get_mahadasha is called on it.                                          *)
(***************************************************************************)
MahaboteIdle ==
    /\ birth_date = ClockStart
    /\ mahabote = None

InitVedic ==
    /\ today \in ClockDates
    /\ moon_lon \in Longitudes
    /\ formatted = None
    /\ nak_info = None
    /\ dash_info = None
    /\ MahaboteIdle
    /\ AspectIdle
    /\ ReadingIdle
    /\ EngineIdle
    /\ EpochIdle

VedicFresh == formatted = None /\ nak_info = None /\ dash_info = None

FormatPlanet ==
    /\ VedicFresh
    /\ formatted' = format_planet(moon_lon)
    /\ UNCHANGED <<today, moon_lon, nak_info, dash_info, mahaboteVars, aspectVars, engineVars, epochVars, readingVars>>

GetNakshatraInfo ==
    /\ VedicFresh
    /\ nak_info' = get_nakshatra_info(moon_lon)
    /\ UNCHANGED <<today, moon_lon, formatted, dash_info, mahaboteVars, aspectVars, engineVars, epochVars, readingVars>>

GetMahadasha ==
    /\ VedicFresh
    /\ dash_info' = get_mahadasha(birth_date, moon_lon, today)
    /\ UNCHANGED <<today, moon_lon, formatted, nak_info, mahaboteVars, aspectVars, engineVars, epochVars, readingVars>>

NextVedic == FormatPlanet \/ GetNakshatraInfo \/ GetMahadasha

SpecVedic == InitVedic /\ [][NextVedic]_vars

(***************************************************************************)
(* Specification of the aspect classifier: get_aspects is called on a map  *)
(* of two bodies (every pair of longitudes of a half-degree grid) or on a  *)
(* map of all seven bodies, and the assembler builds dominant_aspects      *)
(* from what it returns.                                                   *)
(***************************************************************************)
\* The longitudes of a pair: every PairStep-th longitude (half a degree).
PairStep == LonRes \div 2
PairLongitudes == { k * PairStep : k \in 0 .. ((360 * LonRes - 1) \div PairStep) }

\* The longitudes body i (1..7) takes in a map of seven: 8.5 degrees after
\* the body before it, moved by whole signs.
SevenLongitudes(i) ==
    { (((17 * (i - 1) * LonRes) \div 2) + 30 * k * LonRes) % (360 * LonRes) :
        k \in 0 .. MaxShift }

InitAspects ==
    /\ AspectIdle
    /\ ReadingIdle
    /\ MahaboteIdle
    /\ VedicIdle
    /\ EngineIdle
    /\ EpochIdle

\* get_aspects on a map of two bodies, then line 277.
ClassifyPair ==
    /\ aspects = None
    /\ \E lon1 \in PairLongitudes, lon2 \in PairLongitudes :
          positions' = << [planet |-> planet_names[1], lon |-> lon1],
                          [planet |-> planet_names[2], lon |-> lon2] >>
    /\ aspects' = [list |-> get_aspects(positions')]
    /\ dominant' = [list |-> dominant_aspects(aspects'.list)]
    /\ UNCHANGED <<mahaboteVars, vedicVars, engineVars, epochVars, readingVars>>

\* get_aspects on a map of the seven bodies, then line 277.
ClassifySeven ==
    /\ aspects = None
    /\ \E s1 \in SevenLongitudes(1), s2 \in SevenLongitudes(2), s3 \in SevenLongitudes(3),
          s4 \in SevenLongitudes(4), s5 \in SevenLongitudes(5), s6 \in SevenLongitudes(6),
          s7 \in SevenLongitudes(7) :
          positions' = [i \in 1 .. 7 |->
                           [planet |-> planet_names[i],
                            lon |-> <<s1, s2, s3, s4, s5, s6, s7>>[i]]]
    /\ aspects' = [list |-> get_aspects(positions')]
    /\ dominant' = [list |-> dominant_aspects(aspects'.list)]
    /\ UNCHANGED <<mahaboteVars, vedicVars, engineVars, epochVars, readingVars>>

NextAspects == ClassifyPair \/ ClassifySeven

SpecAspects == InitAspects /\ [][NextAspects]_vars

(***************************************************************************)
(* Specification of the engine: a birth instant and a place are given;     *)
(* calculate_western_vedic is called on them, again and again, while the   *)
(* system clock moves on; and planet_longitude is called for the birth     *)
(* instant with a body identifier.                                         *)
(***************************************************************************)
\* The birth instants: four days of two years, at midnight, at 06:30:15 and
\* at noon.
BirthInstants ==
    { [year |-> y, month |-> m, day |-> d, hour |-> t[1], minute |-> t[2], second |-> t[3]] :
        y \in {FirstYear + 2, 2000}, m \in {1, 6}, d \in {1, 15},
        t \in {<<0, 0, 0>>, <<6, 30, 15>>, <<12, 0, 0>>} }

\* The places <<lat, lon>>, in micro-degrees.
Places ==
    { <<17 * MicroDeg, 96 * MicroDeg>>, <<0 - 34 * MicroDeg, 0 - 58 * MicroDeg>>,
      <<51 * MicroDeg, 0>> }

\* The body identifiers planet_longitude is called with.
Bodies == { planet_names[i] : i \in 1 .. Len(planet_names) } \cup {"Pluto", "Ascendant"}

Init ==
    /\ birth_dt \in BirthInstants
    /\ place \in Places
    /\ result = None
    /\ prev_result = None
    /\ calls = 0
    /\ planet_arg = ""
    /\ planet_ret = None
    /\ asc_ret = None
    /\ MahaboteIdle
    /\ VedicIdle
    /\ AspectIdle
    /\ ReadingIdle
    /\ EpochIdle

\* The system clock passes midnight.
Tick ==
    /\ ToOrdinal(today) < ToOrdinal(ClockStart) + MaxClockDays
    /\ today' = AddDays(today, 1)
    /\ UNCHANGED <<moon_lon, formatted, nak_info, dash_info, mahaboteVars, aspectVars,
                   engineVars, epochVars, readingVars>>

CalculateWesternVedic ==
    /\ calls < MaxCalls
    /\ calls' = calls + 1
    /\ prev_result' = result
    /\ result' = calculate_western_vedic(birth_dt, place[1], place[2], today)
    /\ UNCHANGED <<birth_dt, place, planet_arg, planet_ret, asc_ret, mahaboteVars, vedicVars, aspectVars,
                   epochVars, readingVars>>

PlanetLongitude ==
    /\ planet_ret = None
    /\ \E p \in Bodies :
          /\ planet_arg' = p
          /\ planet_ret' = planet_longitude(birth_dt, p)
    /\ UNCHANGED <<birth_dt, place, result, prev_result, calls, asc_ret, mahaboteVars, vedicVars,
                   aspectVars, epochVars, readingVars>>

Next == Tick \/ CalculateWesternVedic \/ PlanetLongitude

Spec == Init /\ [][Next]_vars

(***************************************************************************)
(* Claims about the engine                                                 *)
(***************************************************************************)
\* calculate_western_vedic was called twice on the same instant and place.
CalledTwice == result # None /\ prev_result # None

\* C3: two evaluations of calculate_western_vedic with the same birth instant
\* and coordinates return identical western and vedic sections, the date
\* mahadasha_ends included, whatever the current date is at each evaluation.
C3_Pure == CalledTwice => result = prev_result

\* planet_longitude was called with a body that is not one of the seven.
UnknownBodyCalled ==
    /\ planet_ret # None
    /\ \A i \in 1 .. Len(planet_names) : planet_arg # planet_names[i]

\* C4: planet_longitude called with a body identifier that is not one of the
\* seven ends with an error; it never returns a longitude.
C4_FailFast == UnknownBodyCalled => "raised" \in DOMAIN planet_ret

(***************************************************************************)
(* Specification of the continuous epoch: an instant is given, then        *)
(* jd_to_j2000(to_julian_day(...)) is computed for it and for a second     *)
(* instant: the next second, the next civil day, or the epoch J2000.0.     *)
(***************************************************************************)
\* The years of the instants: the years in range, two century years that are
\* not leap years, and the year 2000, which is one.
EpochYears == (FirstYear .. (FirstYear + NumYears - 1)) \cup {1900, 2000, 2100}

\* The times of day of the instants.
EpochTimes == { <<0, 0, 0>>, <<6, 30, 15>>, <<11, 59, 59>>, <<12, 0, 0>>, <<23, 59, 59>> }

At(dt, t) ==
    [year |-> dt.year, month |-> dt.month, day |-> dt.day,
     hour |-> t[1], minute |-> t[2], second |-> t[3]]

EpochInstants ==
    { At([year |-> y, month |-> m, day |-> d], t) :
        y \in EpochYears, m \in 1 .. 12, d \in 1 .. 31, t \in EpochTimes }

ValidInstants == { dt \in EpochInstants : dt.day <= DaysInMonth(dt.year, dt.month) }

\* dt + timedelta(days = 1)
NextDay(dt) == At(AddDays(dt, 1), <<dt.hour, dt.minute, dt.second>>)

\* dt + timedelta(seconds = 1)
NextSecond(dt) ==
    IF dt.second < 59 THEN At(dt, <<dt.hour, dt.minute, dt.second + 1>>)
    ELSE IF dt.minute < 59 THEN At(dt, <<dt.hour, dt.minute + 1, 0>>)
    ELSE IF dt.hour < 23 THEN At(dt, <<dt.hour + 1, 0, 0>>)
    ELSE At(AddDays(dt, 1), <<0, 0, 0>>)

InitEpoch ==
    /\ epoch_dt \in ValidInstants
    /\ epoch_d = None
    /\ later_dt = J2000
    /\ later_d = None
    /\ MahaboteIdle
    /\ VedicIdle
    /\ AspectIdle
    /\ ReadingIdle
    /\ EngineIdle

ToContinuousEpoch ==
    /\ epoch_d = None
    /\ epoch_d' = jd_to_j2000(to_julian_day(epoch_dt))
    /\ UNCHANGED <<epoch_dt, later_dt, later_d, mahaboteVars, vedicVars, aspectVars, engineVars, readingVars>>

ToContinuousEpochLater ==
    /\ epoch_d # None
    /\ later_d = None
    /\ later_dt' \in {NextSecond(epoch_dt), NextDay(epoch_dt), J2000}
    /\ later_d' = jd_to_j2000(to_julian_day(later_dt'))
    /\ UNCHANGED <<epoch_dt, epoch_d, mahaboteVars, vedicVars, aspectVars, engineVars, readingVars>>

NextEpoch == ToContinuousEpoch \/ ToContinuousEpochLater

SpecEpoch == InitEpoch /\ [][NextEpoch]_vars

(***************************************************************************)
(* Claims about the continuous epoch                                       *)
(***************************************************************************)
EpochDone == epoch_d # None
LaterDone == later_d # None

\* The time from 2000-01-01 12:00:00 to the instant dt, counted on the
\* calendar: whole days (rounded down) and the seconds after them.
Elapsed(dt) ==
    LET n == ToOrdinal(dt) - ToOrdinal(J2000)
        t == dt.hour * 3600 + dt.minute * 60 + dt.second - 12 * 3600
    IN IF t >= 0 THEN [days |-> n, secs |-> t]
       ELSE [days |-> n - 1, secs |-> t + 86400]

\* The instant a is earlier than the instant b.
Earlier(a, b) ==
    LET fa == <<a.year, a.month, a.day, a.hour, a.minute, a.second>>
        fb == <<b.year, b.month, b.day, b.hour, b.minute, b.second>>
    IN \E i \in 1 .. 6 : fa[i] < fb[i] /\ \A j \in 1 .. (i - 1) : fa[j] = fb[j]

\* The epoch value x is less than the epoch value y.
Less(x, y) == x.days < y.days \/ (x.days = y.days /\ x.secs < y.secs)

\* C11: jd_to_j2000(to_julian_day(instant)) is the elapsed time in days, with
\* the fraction from hour, minute and second, since 2000-01-01 12:00:00: it
\* is 0 at that instant, it grows by exactly 1 when the instant advances by
\* one civil day (across month ends, year ends and leap days), and it is
\* strictly increasing in the instant.
C11_Epoch ==
    /\ EpochDone => epoch_d = Elapsed(epoch_dt)
    /\ (EpochDone /\ epoch_dt = J2000) => epoch_d = [days |-> 0, secs |-> 0]
    /\ (LaterDone /\ later_dt = J2000) => later_d = [days |-> 0, secs |-> 0]
    /\ (LaterDone /\ later_dt = NextDay(epoch_dt)) =>
           later_d = [days |-> epoch_d.days + 1, secs |-> epoch_d.secs]
    /\ LaterDone => (Earlier(epoch_dt, later_dt) <=> Less(epoch_d, later_d))
    /\ LaterDone => (epoch_dt = later_dt <=> epoch_d = later_d)

\* The epoch value was computed for 2000-02-28 23:59:59 and for the second
\* after it, the first of the leap day, and grew by one second.
C11_Witness ==
    /\ LaterDone
    /\ epoch_dt = [year |-> 2000, month |-> 2, day |-> 28, hour |-> 23, minute |-> 59, second |-> 59]
    /\ later_dt = [year |-> 2000, month |-> 2, day |-> 29, hour |-> 0, minute |-> 0, second |-> 0]
    /\ later_d.days = epoch_d.days /\ later_d.secs = epoch_d.secs + 1

\* The epoch value was computed for the last noon of 2000 and for the noon of
\* the next civil day, 366 days after J2000.0.
C11_WitnessDay ==
    /\ LaterDone
    /\ epoch_dt = [year |-> 2000, month |-> 12, day |-> 31, hour |-> 12, minute |-> 0, second |-> 0]
    /\ later_dt = NextDay(epoch_dt)
    /\ later_d = [days |-> 366, secs |-> 0]

(***************************************************************************)
(* Specification of the longitudes: an instant and a place are given, then *)
(* planet_longitude is called for a body or approximate_ascendant for the  *)
(* place.  Beside the places of the engine, the place is one on the        *)
(* meridian where the local sidereal time of the instant is 270 degrees.   *)
(***************************************************************************)
LongitudeInstants ==
    { dt \in ValidInstants : dt.year \in {FirstYear + 2, 2000} /\ dt.day \in {1, 15, 28} }

\* The longitude, in (-180, 180] degrees, where LST is 270 degrees at dt.
MeridianLon(dt) ==
    LET l == normalize(270 * MicroDeg - local_sidereal_time(dt, 0))
    IN IF l > 180 * MicroDeg THEN l - Circle ELSE l

LongitudePlaces(dt) ==
    Places \cup { <<lat, MeridianLon(dt)>> : lat \in {17 * MicroDeg, 60 * MicroDeg} }

InitLongitude ==
    /\ birth_dt \in LongitudeInstants
    /\ place \in LongitudePlaces(birth_dt)
    /\ result = None
    /\ prev_result = None
    /\ calls = 0
    /\ planet_arg = ""
    /\ planet_ret = None
    /\ asc_ret = None
    /\ MahaboteIdle
    /\ VedicIdle
    /\ AspectIdle
    /\ ReadingIdle
    /\ EpochIdle

ApproximateAscendant ==
    /\ asc_ret = None
    /\ asc_ret' = [value |-> approximate_ascendant(birth_dt, place[1], place[2])]
    /\ UNCHANGED <<birth_dt, place, result, prev_result, calls, planet_arg, planet_ret,
                   mahaboteVars, vedicVars, aspectVars, epochVars, readingVars>>

NextLongitude == PlanetLongitude \/ ApproximateAscendant

SpecLongitude == InitLongitude /\ [][NextLongitude]_vars

(***************************************************************************)
(* Claims about the longitudes                                             *)
(***************************************************************************)
\* planet_longitude was called with one of the seven bodies.
KnownBodyCalled ==
    /\ planet_ret # None
    /\ \E i \in 1 .. Len(planet_names) : planet_arg = planet_names[i]

\* approximate_ascendant was called for a place that is not a pole.
AscendantCalled ==
    /\ asc_ret # None
    /\ place[1] # 90 * MicroDeg
    /\ place[1] # 0 - 90 * MicroDeg

InCircle(x) == 0 <= x /\ x < Circle

\* C12: every longitude the engine returns is normalized: planet_longitude
\* returns a value in [0, 360) for each of the seven bodies, and
\* approximate_ascendant returns a value in [0, 360) for every place away
\* from latitude +90 and -90.
C12_Normalized ==
    /\ KnownBodyCalled => InCircle(planet_ret.value)
    /\ AscendantCalled => InCircle(asc_ret.value)

(***************************************************************************)
(* main.py and ai_engine.py: create_synthesis and generate_reading.        *)
(*                                                                         *)
(* Geocoding, the time zone and the two text providers are outside the     *)
(* program: a request carries what geocode_city and local_to_utc give for  *)
(* its city, and every call of a provider ends in one of Outcomes.         *)
(***************************************************************************)
\* How a call of a provider ends: with a text, with an exception whose text
\* holds "429" or "RESOURCE_EXHAUSTED", or with any other exception.
Outcomes == {"ok", "rate_limit", "error"}

\* The synthesis object of lines 72-90 of main.py.
build_synthesis(req, clock) ==
    LET astro_data == calculate_western_vedic(req.utc, req.geo[1], req.geo[2], clock)
        mahabote_data == calculate_mahabote([year |-> req.local.year,
                                            month |-> req.local.month,
                                            day |-> req.local.day])
    IN [user     |-> [name |-> req.name, local |-> req.local, coordinates |-> req.geo],
        western  |-> astro_data.western,
        vedic    |-> astro_data.vedic,
        mahabote |-> mahabote_data]

\* Where generate_reading goes when the OpenRouter loop is over or skipped:
\* the Gemini loop if there is a Gemini key and range(max_retries) is not
\* empty, the raise of line 138 otherwise.
gemini_or_raise(k, retries) ==
    IF k.gemini /\ retries > 0 THEN "gemini" ELSE "raise"

\* Where generate_reading goes first.
openrouter_or_next(k, retries) ==
    IF k.openrouter /\ retries > 0 THEN "openrouter" ELSE gemini_or_raise(k, retries)

\* A mutant of openrouter_retries: one more attempt than max_retries.
openrouter_retries_extra(att, retries) == att < retries

\* Lines 115-122: after a failed OpenRouter attempt att (0-based) the loop
\* goes round again while attempts are left.
openrouter_retries(att, retries) == att < retries - 1

\* A mutant of gemini_retries: every failure is tried again.
gemini_retries_any(outcome, att, retries) == att < retries - 1

\* Lines 126-136: after a failed Gemini attempt att (0-based) the loop goes
\* round again only after a rate-limit failure and while attempts are
\* left; any other failure breaks out of the loop.
gemini_retries(outcome, att, retries) == outcome = "rate_limit" /\ att < retries - 1

\* The record of one call; a call that succeeds returns a text of its own.
Call(provider, outcome, n) ==
    [provider |-> provider, outcome |-> outcome,
     text |-> IF outcome = "ok" THEN <<provider, n>> ELSE <<>>]

\* A mutant of respond: a failed reading is answered with an error.
respond_error(syn, ret) ==
    IF "text" \in DOMAIN ret
    THEN [status |-> 200, synthesis |-> syn, reading |-> ret]
    ELSE [status |-> 500]

\* main.py lines 93-99: the reading is the text generate_reading returned,
\* or None when it raised; the answer holds the synthesis and the reading.
respond(syn, ret) ==
    [status |-> 200,
     synthesis |-> syn,
     reading |-> IF "text" \in DOMAIN ret THEN ret ELSE None]

(***************************************************************************)
(* Specification of a request: create_synthesis is posted birth data,      *)
(* builds the synthesis and calls generate_reading, which calls the        *)
(* providers one call at a time; create_synthesis then answers.            *)
(***************************************************************************)
\* The requests: Yangon with its time zone resolved (UTC+6:30) and not
\* resolved (local time taken for UTC), and Buenos Aires (UTC-3), where the
\* local date and the UTC date differ.
Requests ==
    { [name |-> "User",
       local |-> [year |-> 1990, month |-> 6, day |-> 15, hour |-> 18, minute |-> 30, second |-> 0],
       utc   |-> [year |-> 1990, month |-> 6, day |-> 15, hour |-> 12, minute |-> 0, second |-> 0],
       geo   |-> <<17 * MicroDeg, 96 * MicroDeg>>],
      [name |-> "User",
       local |-> [year |-> 1990, month |-> 6, day |-> 15, hour |-> 18, minute |-> 30, second |-> 0],
       utc   |-> [year |-> 1990, month |-> 6, day |-> 15, hour |-> 18, minute |-> 30, second |-> 0],
       geo   |-> <<17 * MicroDeg, 96 * MicroDeg>>],
      [name |-> "User",
       local |-> [year |-> 1990, month |-> 4, day |-> 13, hour |-> 22, minute |-> 0, second |-> 0],
       utc   |-> [year |-> 1990, month |-> 4, day |-> 14, hour |-> 1, minute |-> 0, second |-> 0],
       geo   |-> <<0 - 34 * MicroDeg, 0 - 58 * MicroDeg>>] }

InitReading ==
    /\ request \in Requests
    /\ pc = "request"
    /\ synthesis = None
    /\ keys \in [openrouter : BOOLEAN, gemini : BOOLEAN]
    /\ max_retries \in 0 .. MaxRetries
    /\ attempt = 0
    /\ provider_calls = <<>>
    /\ gen_ret = None
    /\ response = None
    /\ today \in ClockDates
    /\ moon_lon = 0
    /\ formatted = None
    /\ nak_info = None
    /\ dash_info = None
    /\ MahaboteIdle
    /\ AspectIdle
    /\ EngineIdle
    /\ EpochIdle

otherVars == <<mahaboteVars, vedicVars, aspectVars, engineVars, epochVars>>

\* main.py lines 55-90: the city is found and the synthesis is built.
BuildSynthesis ==
    /\ pc = "request"
    /\ synthesis' = build_synthesis(request, today)
    /\ pc' = "generate"
    /\ UNCHANGED <<request, keys, max_retries, attempt, provider_calls, gen_ret, response,
                   otherVars>>

\* main.py lines 61 and 101-102: geocode_city raises ValueError, and the
\* answer is the error 400.
RejectRequest ==
    /\ pc = "request"
    /\ response' = [status |-> 400]
    /\ pc' = "done"
    /\ UNCHANGED <<request, synthesis, keys, max_retries, attempt, provider_calls, gen_ret,
                   otherVars>>

\* main.py line 94 and ai_engine.py lines 108-114: generate_reading is
\* entered and loads the keys.
LoadKeys ==
    /\ pc = "generate"
    /\ pc' = openrouter_or_next(keys, max_retries)
    /\ attempt' = 0
    /\ UNCHANGED <<request, synthesis, keys, max_retries, provider_calls, gen_ret, response,
                   otherVars>>

\* ai_engine.py lines 115-122: one attempt of the OpenRouter loop.
CallOpenRouter ==
    /\ pc = "openrouter"
    /\ \E outcome \in Outcomes :
          LET c == Call("openrouter", outcome, Len(provider_calls) + 1)
          IN /\ provider_calls' = Append(provider_calls, c)
             /\ IF outcome = "ok"
                THEN gen_ret' = [text |-> c.text] /\ pc' = "returned" /\ attempt' = attempt
                ELSE IF openrouter_retries(attempt, max_retries)
                THEN gen_ret' = gen_ret /\ pc' = pc /\ attempt' = attempt + 1
                ELSE /\ gen_ret' = gen_ret
                     /\ pc' = gemini_or_raise(keys, max_retries)
                     /\ attempt' = 0
    /\ UNCHANGED <<request, synthesis, keys, max_retries, response, otherVars>>

\* ai_engine.py lines 126-136: one attempt of the Gemini loop.
CallGemini ==
    /\ pc = "gemini"
    /\ \E outcome \in Outcomes :
          LET c == Call("gemini", outcome, Len(provider_calls) + 1)
          IN /\ provider_calls' = Append(provider_calls, c)
             /\ IF outcome = "ok"
                THEN gen_ret' = [text |-> c.text] /\ pc' = "returned" /\ attempt' = attempt
                ELSE IF gemini_retries(outcome, attempt, max_retries)
                THEN gen_ret' = gen_ret /\ pc' = pc /\ attempt' = attempt + 1
                ELSE gen_ret' = gen_ret /\ pc' = "raise" /\ attempt' = attempt
    /\ UNCHANGED <<request, synthesis, keys, max_retries, response, otherVars>>

\* ai_engine.py lines 138-141: no provider gave a text.
RaiseValueError ==
    /\ pc = "raise"
    /\ gen_ret' = [raised |-> "ValueError"]
    /\ pc' = "raised"
    /\ UNCHANGED <<request, synthesis, keys, max_retries, attempt, provider_calls, response,
                   otherVars>>

\* main.py lines 94-99: generate_reading is over, create_synthesis answers.
Respond ==
    /\ pc \in {"returned", "raised"}
    /\ response' = respond(synthesis, gen_ret)
    /\ pc' = "done"
    /\ UNCHANGED <<request, synthesis, keys, max_retries, attempt, provider_calls, gen_ret,
                   otherVars>>

NextReading ==
    \/ BuildSynthesis
    \/ RejectRequest
    \/ LoadKeys
    \/ CallOpenRouter
    \/ CallGemini
    \/ RaiseValueError
    \/ Respond

SpecReading == InitReading /\ [][NextReading]_vars

\* The steps of generate_reading and the answer that follows it.
ReadingSteps == LoadKeys \/ CallOpenRouter \/ CallGemini \/ RaiseValueError \/ Respond

\* Once generate_reading is called, the request is handled on: every call
\* of a provider ends (the HTTP call has a timeout of 60 seconds), and the
\* sleeps end.
SpecReadingFair == SpecReading /\ WF_vars(ReadingSteps)

(***************************************************************************)
(* Claims about generate_reading and create_synthesis                      *)
(***************************************************************************)
BothKeys == keys # None /\ keys.openrouter /\ keys.gemini

\* The positions in provider_calls of the calls to one provider.
CallsTo(provider) ==
    { i \in 1 .. Len(provider_calls) : provider_calls[i].provider = provider }

Failed(i) == provider_calls[i].outcome # "ok"

\* C13: generate_reading is a linear failover.  With both keys configured:
\* every OpenRouter call precedes every Gemini call; Gemini is called only
\* after max_retries OpenRouter calls that all failed; each provider is
\* called at most max_retries times; a call that succeeds is the last call,
\* and its text is what generate_reading returns; a Gemini call follows a
\* Gemini call only when that one failed on the rate limit, and a Gemini
\* call that failed otherwise is the last call.
C13_Failover ==
    BothKeys =>
       /\ \A i \in CallsTo("openrouter"), j \in CallsTo("gemini") : i < j
       /\ CallsTo("gemini") # {} =>
              /\ Cardinality(CallsTo("openrouter")) = max_retries
              /\ \A i \in CallsTo("openrouter") : Failed(i)
       /\ Cardinality(CallsTo("openrouter")) <= max_retries
       /\ Cardinality(CallsTo("gemini")) <= max_retries
       /\ \A i \in 1 .. Len(provider_calls) :
              ~Failed(i) =>
                 /\ i = Len(provider_calls)
                 /\ gen_ret = [text |-> provider_calls[i].text]
       /\ (gen_ret # None /\ "text" \in DOMAIN gen_ret) =>
              /\ provider_calls # <<>>
              /\ ~Failed(Len(provider_calls))
       /\ \A j \in CallsTo("gemini") :
              /\ (j > 1 /\ (j - 1) \in CallsTo("gemini")) =>
                     provider_calls[j - 1].outcome = "rate_limit"
              /\ provider_calls[j].outcome = "error" => j = Len(provider_calls)

\* With both keys and max_retries = 2: OpenRouter failed twice, Gemini failed
\* on the rate limit and then gave the text that generate_reading returned.
C13_Witness ==
    /\ BothKeys
    /\ max_retries = 2
    /\ Len(provider_calls) = 4
    /\ provider_calls[3] = Call("gemini", "rate_limit", 3)
    /\ provider_calls[4] = Call("gemini", "ok", 4)
    /\ gen_ret = [text |-> <<"gemini", 4>>]

\* With both keys and max_retries = 2: Gemini failed otherwise than on the
\* rate limit at its first attempt, and generate_reading raised.
C13_WitnessBreak ==
    /\ BothKeys
    /\ max_retries = 2
    /\ Len(provider_calls) = 3
    /\ provider_calls[3] = Call("gemini", "error", 3)
    /\ gen_ret = [raised |-> "ValueError"]

\* generate_reading is over.
ReadingOver == gen_ret # None

ReadingRaised == gen_ret = [raised |-> "ValueError"]

NoCallSucceeded == \A i \in 1 .. Len(provider_calls) : Failed(i)

Answered == response # None /\ pc = "done"

\* What C14 says of a state.
C14_State ==
    /\ Len(provider_calls) <= 2 * max_retries
    /\ ReadingOver => (ReadingRaised <=> NoCallSucceeded)
    /\ (ReadingOver /\ ~keys.openrouter /\ ~keys.gemini) =>
           ReadingRaised /\ provider_calls = <<>>
    /\ (Answered /\ ReadingRaised) =>
           response = [status |-> 200,
                       synthesis |-> build_synthesis(request, today),
                       reading |-> None]
    /\ (Answered /\ ReadingOver /\ ~ReadingRaised) =>
           response = [status |-> 200,
                       synthesis |-> build_synthesis(request, today),
                       reading |-> gen_ret]

\* C14: for every configuration of keys and every pattern of provider
\* failures, generate_reading ends after finitely many provider calls (at
\* most max_retries to each provider), and it raises ValueError exactly
\* when no call succeeded, also when no key is configured; create_synthesis
\* then still answers with the complete synthesis and reading = None, not
\* with an error, and the synthesis is the one it answers with when the
\* reading succeeds.
C14_Degrades ==
    /\ []C14_State
    /\ (pc = "generate") ~> ReadingOver
    /\ ReadingOver ~> Answered

\* Both keys configured, max_retries = 2, all four calls failed:
\* generate_reading raised, and create_synthesis answered with the synthesis
\* and no reading.
C14_Witness ==
    /\ BothKeys
    /\ max_retries = 2
    /\ Len(provider_calls) = 4
    /\ NoCallSucceeded
    /\ ReadingRaised
    /\ Answered
    /\ response.status = 200
    /\ response.reading = None
    /\ response.synthesis = synthesis

\* No key configured: generate_reading raised without a call, and
\* create_synthesis answered with the synthesis and no reading.
C14_WitnessNoKey ==
    /\ ~keys.openrouter /\ ~keys.gemini
    /\ provider_calls = <<>>
    /\ ReadingRaised
    /\ Answered
    /\ response.reading = None

(***************************************************************************)
(* Claims about the aspect classifier                                      *)
(***************************************************************************)
AspectsDone == aspects # None
PairDone == AspectsDone /\ Len(positions) = 2
SevenDone == AspectsDone /\ Len(positions) = 7

\* The separation of two longitudes of [0, 360) measured the short way round.
Separation(lon1, lon2) ==
    LET d == IF lon1 >= lon2 THEN lon1 - lon2 ELSE lon2 - lon1
    IN Min(d, 360 * LonRes - d)

\* The aspect of a separation sep (in longitude units) by the table of the
\* claim, as intervals of degrees; "none" when it is in no interval.
KindOf(sep) ==
    CASE sep <= 8 * LonRes -> "Conjunction"
      [] sep >= 54 * LonRes /\ sep <= 66 * LonRes -> "Sextile"
      [] sep >= 82 * LonRes /\ sep <= 98 * LonRes -> "Square"
      [] sep >= 112 * LonRes /\ sep <= 128 * LonRes -> "Trine"
      [] sep >= 172 * LonRes -> "Opposition"
      [] OTHER -> "none"

\* The kinds of the records of a list of aspects.
Kinds(list) == [k \in 1 .. Len(list) |-> list[k].name]

\* C6: for every pair of longitudes in [0,360), get_aspects reduces the
\* absolute separation to [0,180] and tests it against (0,8,Conjunction),
\* (60,6,Sextile), (90,8,Square), (120,8,Trine), (180,8,Opposition) in that
\* order with the first match winning; no reduced separation satisfies
\* |diff - angle| <= orb for two table entries, and a pair matching no
\* entry contributes no record.
C6_Classification ==
    PairDone =>
        LET sep  == Separation(positions[1].lon, positions[2].lon)
            diff == angular_separation(positions[1].lon, positions[2].lon)
        IN /\ diff = sep
           /\ diff >= 0 /\ diff <= 180 * LonRes
           /\ Cardinality(matching_aspects(diff)) <= 1
           /\ KindOf(sep) = "none" => aspects.list = <<>>
           /\ KindOf(sep) # "none" =>
                aspects.list = << [p1 |-> positions[1].planet, name |-> KindOf(sep),
                                   p2 |-> positions[2].planet] >>

\* Two bodies 59.5 degrees apart across 0 degrees were classified: a Sextile.
C6_Witness ==
    /\ PairDone
    /\ Abs(positions[1].lon - positions[2].lon) > 180 * LonRes
    /\ Kinds(aspects.list) = <<"Sextile">>

\* The same map with the bodies in the other order.
Swapped(pos) == <<pos[2], pos[1]>>

\* C7: aspect classification is symmetric: for any two bodies A, B with
\* longitudes in [0,360), classifying the pair with A first yields the same
\* aspect kind (or the same absence of an aspect) as classifying it with B
\* first.
C7_Symmetric ==
    PairDone => Kinds(aspects.list) = Kinds(get_aspects(Swapped(positions)))

\* A pair whose first body is behind the second was classified as a Trine.
C7_Witness ==
    /\ PairDone
    /\ positions[1].lon < positions[2].lon
    /\ Kinds(aspects.list) = <<"Trine">>

\* The pairs (i, j), i < j, of bodies of the map that are in aspect.
AspectedPairs(pos) ==
    { pr \in (1 .. Len(pos)) \X (1 .. Len(pos)) :
        /\ pr[1] < pr[2]
        /\ KindOf(Separation(pos[pr[1]].lon, pos[pr[2]].lon)) # "none" }

\* Pair q comes no later than pair pr in the iteration order of the bodies.
Before(q, pr) == q[1] < pr[1] \/ (q[1] = pr[1] /\ q[2] <= pr[2])

\* The rank (1, 2, ...) of pair pr among the pairs P in iteration order.
Rank(P, pr) == Cardinality({ q \in P : Before(q, pr) })

\* C8: for every position map over the seven bodies, western.dominant_aspects
\* is never empty or absent and has at most 6 entries: when get_aspects
\* finds any aspect it is exactly the first min(6, n) records in fixed
\* body-pair iteration order (Sun, Moon, Mercury, Venus, Mars, Jupiter,
\* Saturn; each record naming the earlier body first), and when it finds
\* none it is the single "no aspects" indicator entry.
C8_Dominant ==
    SevenDone =>
        LET P == AspectedPairs(positions)
            n == Cardinality(P)
        IN /\ dominant # None
           /\ Len(dominant.list) >= 1
           /\ Len(dominant.list) <= 6
           /\ [i \in 1 .. 7 |-> positions[i].planet] = planet_names
           /\ n = 0 => dominant.list = <<NoAspects>>
           /\ n > 0 =>
                /\ Len(dominant.list) = Min(6, n)
                /\ \A pr \in P :
                      Rank(P, pr) <= 6 =>
                          dominant.list[Rank(P, pr)] =
                              [p1 |-> planet_names[pr[1]],
                               name |-> KindOf(Separation(positions[pr[1]].lon,
                                                          positions[pr[2]].lon)),
                               p2 |-> planet_names[pr[2]]]

\* A map of seven bodies with more than six aspects was classified, and
\* dominant_aspects holds the first six.
C8_Witness ==
    /\ SevenDone
    /\ Len(aspects.list) > 6
    /\ Len(dominant.list) = 6
    /\ dominant.list = SubSeq(aspects.list, 1, 6)

\* A map of seven bodies with no aspect at all was classified.
C8_WitnessNone ==
    /\ SevenDone
    /\ aspects.list = <<>>
    /\ dominant.list = <<NoAspects>>

\* A map of seven bodies with one to five aspects was classified.
C8_WitnessFew ==
    /\ SevenDone
    /\ Len(aspects.list) \in 1 .. 5
    /\ dominant.list = aspects.list

(***************************************************************************)
(* Claims about the functions of one longitude                             *)
(***************************************************************************)
FormatDone == formatted # None
NakshatraDone == nak_info # None
MahadashaDone == dash_info # None

\* C5: for every longitude in [0,360), format_planet uses a sign index
\* floor(longitude/30) mod 12 that lies in 0..11, and the degree-in-sign it
\* puts in its output string (the value shown with one decimal) is >= 0 and
\* strictly less than 30 (300 tenths).
C5_FormatPlanet ==
    FormatDone =>
        LET sign_idx == (moon_lon \div (30 * LonRes)) % 12
        IN /\ sign_idx \in 0 .. 11
           /\ formatted.sign = ZODIAC_SIGNS[sign_idx + 1]
           /\ formatted.degree >= 0
           /\ formatted.degree < 300

\* The quarter (1..4) of its nakshatra that a longitude lies in: quarter p of
\* nakshatra i spans [i * 40/3 + (p-1) * 10/3, i * 40/3 + p * 10/3) degrees.
QuarterOf(lon) ==
    CHOOSE p \in 1 .. 4 : \E i \in 0 .. 26 :
        /\ 3 * lon >= (40 * i + 10 * (p - 1)) * LonRes
        /\ 3 * lon < (40 * i + 10 * p) * LonRes

DashaBodies ==
    <<"Ketu", "Venus", "Sun", "Moon", "Mars", "Rahu", "Jupiter", "Saturn", "Mercury">>

Allotment(body) ==
    CASE body = "Ketu" -> 7 [] body = "Venus" -> 20 [] body = "Sun" -> 6
      [] body = "Moon" -> 10 [] body = "Mars" -> 7 [] body = "Rahu" -> 18
      [] body = "Jupiter" -> 16 [] body = "Saturn" -> 19 [] body = "Mercury" -> 17

\* C10: for every Moon longitude in [0,360) and every reference date,
\* get_mahadasha resolves the ruling body from the 27-entry lord table
\* (entry i is the (i mod 9)-th body of the Vimshottari order, so the lookup
\* always succeeds), reports years_remaining in (0, allotment] for that
\* body's fixed allotment, and reports next_dasha as the cyclic successor of
\* the ruling body in that order, with Mercury followed by Ketu.
C10_Mahadasha ==
    MahadashaDone =>
        LET idx == (27 * moon_lon) \div (360 * LonRes)
            k   == idx % 9
        IN /\ "raised" \notin DOMAIN dash_info
           /\ dash_info.mahadasha_lord = DashaBodies[k + 1]
           /\ dash_info.years_remaining > 0
           /\ dash_info.years_remaining <= 10 * Allotment(DashaBodies[k + 1])
           /\ dash_info.next_dasha = DashaBodies[((k + 1) % 9) + 1]
           /\ (dash_info.mahadasha_lord = "Mercury" => dash_info.next_dasha = "Ketu")

(***************************************************************************)
(* Claims about the Mahabote deriver                                       *)
(***************************************************************************)
MahaboteDone == mahabote # None

\* The weekday of a date counted from Saturday = 0, from the Julian Day Number
\* (JDN 2451545, 2000-01-01, was a Saturday; JDN mod 7 = 0 is a Monday).
SaturdayBased(dt) == (JulianDayNumber(dt) + 2) % 7

\* C1: for every valid calendar date calculate_mahabote returns
\* house_index = (day_value - kyin) mod 7 with kyin = be_year mod 7 and
\* day_value the Saturday-based weekday; house_index, kyin and day_value are
\* in 0..6, grid_number = house_index + 1 is in 1..7, and a Saturday birth
\* whose BE year mod 7 is 0 yields house_index 0.
C1_HouseIndex ==
    MahaboteDone =>
        /\ "raised" \notin DOMAIN mahabote
        /\ mahabote.kyin = mahabote.be_year % 7
        /\ mahabote.day_value = SaturdayBased(birth_date)
        /\ mahabote.house_index = (mahabote.day_value - mahabote.kyin) % 7
        /\ mahabote.house_index \in 0 .. 6
        /\ mahabote.kyin \in 0 .. 6
        /\ mahabote.day_value \in 0 .. 6
        /\ mahabote.grid_number = mahabote.house_index + 1
        /\ mahabote.grid_number \in 1 .. 7
        /\ (mahabote.birth_day = "Saturday" /\ mahabote.be_year % 7 = 0
              => mahabote.house_index = 0)

\* A Saturday birth in a BE year divisible by 7 was computed, with house 0;
C1_Witness ==
    /\ MahaboteDone
    /\ mahabote.birth_day = "Saturday"
    /\ mahabote.be_year % 7 = 0
    /\ mahabote.house_index = 0

April(y, d) == [year |-> y, month |-> 4, day |-> d]

\* C2: calculate_burmese_era returns year - 639 for every date strictly
\* before April 14 of its year and year - 638 for every date on or after
\* April 14; hence April 13 and April 14 of one year map to BE years that
\* differ by exactly 1 (1990-04-13 -> 1351, 1990-04-14 -> 1352).
C2_BurmeseEra ==
    MahaboteDone =>
        LET y == birth_date.year
            before == \/ birth_date.month \in 1 .. 3
                      \/ (birth_date.month = 4 /\ birth_date.day \in 1 .. 13)
        IN /\ before => mahabote.be_year = y - 639
           /\ ~before => mahabote.be_year = y - 638
           /\ birth_date = April(y, 14)
                => mahabote.be_year = calculate_burmese_era(April(y, 13)) + 1
           /\ birth_date = April(y, 13)
                => calculate_burmese_era(April(y, 14)) = mahabote.be_year + 1
           /\ birth_date = April(1990, 13) => mahabote.be_year = 1351
           /\ birth_date = April(1990, 14) => mahabote.be_year = 1352

\* The BE year of 1990-04-14 was computed, and it is 1352.
C2_Witness ==
    /\ MahaboteDone
    /\ birth_date = April(1990, 14)
    /\ mahabote.be_year = 1352

====
